---- MODULE Spec2Model ----
(***************************************************************************)
(* A model of fb_chat.py: the Message order (__lt__, __gt__, __eq__), the  *)
(* Thread message list (sorted on construction, _add_messages,             *)
(* _renumber_messages), the Chat thread list and its cached message count  *)
(* (_recount_messages), and the sent_between query at the three levels.    *)
(*                                                                         *)
(* Message objects live in a heap and lists hold references to them, as    *)
(* Python lists do: the same object may occur in a list more than once.    *)
(* A datetime is the number of minutes since 1 January 2015, 00:00.         *)
(***************************************************************************)
EXTENDS Integers, Sequences, FiniteSets

VARIABLES
    heap,     \* the Message objects: reference -> [date_time, _num, author, text]
    parsed,   \* the thread records handed to Thread(...) and Chat(...)
    threads,  \* Chat.threads: sequence of [people, messages]
    total,    \* Chat._total_messages
    pc,       \* "parsed" before the Chat is built, "ready" after
    last      \* the last call made and what it returned or raised

vars == <<heap, parsed, threads, total, pc, last>>

----------------------------------------------------------------------------
(* Bounds of the model *)

MaxMsgs == 3          \* Spec: Message objects on the heap
MaxLen == 4           \* Spec: longest message list the thread may grow to
MaxThreads == 1       \* Spec: threads handed to Chat(...)
MaxNew == 2           \* Spec: longest list handed to _add_messages
ChatThreads == 2      \* SpecChat: threads handed to Chat(...)
ChatMsgs == 2         \* SpecChat: Message objects on the heap
ChatTotal == 3        \* SpecChat: most messages the threads hold together
ChatNew == 1          \* SpecChat: longest list handed to _add_messages
ConstructThreads == 3 \* SpecConstruct: threads handed to Chat(...)
ConstructMsgs == 3    \* SpecConstruct: Message objects on the heap
QueryMsgs == 3        \* SpecQuery: Message objects on the heap

(* Program constants *)

GapThreshold == 9000     \* "numbers miles apart" in __lt__ and __gt__
MinutesPerDay == 1440    \* datetime.timedelta(1)

Bad == 0                 \* a list element that is not a Message: Python's None
Refs == 1..MaxMsgs

----------------------------------------------------------------------------
(* datetime and _date_parse *)

IsLeap(y) == (y % 4 = 0 /\ y % 100 # 0) \/ y % 400 = 0

DaysInMonth(y, m) ==
    IF m = 2 THEN (IF IsLeap(y) THEN 29 ELSE 28)
    ELSE IF m \in {4, 6, 9, 11} THEN 30 ELSE 31

RECURSIVE DaysBeforeYear(_)
DaysBeforeYear(y) ==
    IF y <= 2015 THEN 0
    ELSE DaysBeforeYear(y - 1) + (IF IsLeap(y - 1) THEN 366 ELSE 365)

RECURSIVE DaysBeforeMonth(_, _)
DaysBeforeMonth(y, m) ==
    IF m <= 1 THEN 0 ELSE DaysBeforeMonth(y, m - 1) + DaysInMonth(y, m - 1)

\* datetime.datetime(*date): hour and minute default to 0
datetime(date) ==
    LET h  == IF Len(date) >= 4 THEN date[4] ELSE 0
        mi == IF Len(date) >= 5 THEN date[5] ELSE 0
    IN ((DaysBeforeYear(date[1]) + DaysBeforeMonth(date[1], date[2])
            + (date[3] - 1)) * 24 + h) * 60 + mi

\* a date argument is a datetime.datetime or a tuple (YYYY, MM, DD[, HH, MM])
_date_parse(date) ==
    IF date.type = "datetime" THEN date.value ELSE datetime(date.value)

Native(t) == [type |-> "datetime", value |-> t]
Tuple(t) == [type |-> "tuple", value |-> t]

----------------------------------------------------------------------------
(* Message *)

sent_before(self, date) == self.date_time < _date_parse(date)

sent_after(self, date) == self.date_time > _date_parse(date)

__lt__(self, message) ==
    IF self.date_time = message.date_time
    THEN IF (IF self._num >= message._num THEN self._num - message._num
             ELSE message._num - self._num) > GapThreshold
         THEN FALSE
         ELSE self._num < message._num
    ELSE sent_before(self, Native(message.date_time))

\* __gt__ with >= for > on the sequence numbers
__gt__or_equal(self, message) ==
    IF self.date_time = message.date_time
    THEN IF (IF self._num >= message._num THEN self._num - message._num
             ELSE message._num - self._num) > GapThreshold
         THEN TRUE
         ELSE self._num >= message._num
    ELSE sent_after(self, Native(message.date_time))

__gt__(self, message) ==
    IF self.date_time = message.date_time
    THEN IF (IF self._num >= message._num THEN self._num - message._num
             ELSE message._num - self._num) > GapThreshold
         THEN TRUE
         ELSE self._num > message._num
    ELSE sent_after(self, Native(message.date_time))

__eq__(self, message) ==
    /\ self._num = message._num /\ self.author = message.author
    /\ self.date_time = message.date_time /\ self.text = message.text

\* an omitted end is None
None == [type |-> "None"]

\* sent_between with the end excluded
sent_between_exclusive(self, start, end) ==
    LET s == _date_parse(start)
        e == IF end # None THEN _date_parse(end) ELSE s + MinutesPerDay
    IN s <= self.date_time /\ self.date_time < e

sent_between(self, start, end) ==
    LET s == _date_parse(start)
        e == IF end # None THEN _date_parse(end) ELSE s + MinutesPerDay
    IN s <= self.date_time /\ self.date_time <= e

----------------------------------------------------------------------------
(* sorted(): CPython's list sort on a list shorter than 64 elements is one   *)
(* run found by count_run (reversed when strictly descending) followed by a  *)
(* binary insertion sort of the remaining elements.  lt[i][j] is the outcome *)
(* of "element i < element j"; the result is the order of the positions.     *)

Reversed(s) == [i \in 1..Len(s) |-> s[Len(s) + 1 - i]]

Min(S) == CHOOSE x \in S : \A y \in S : x <= y

count_run(n, lt) ==
    LET descending == lt[2][1]
        breaks == {i \in 3..n : IF descending THEN ~lt[i][i - 1] ELSE lt[i][i - 1]}
    IN [n |-> IF breaks = {} THEN n ELSE Min(breaks) - 1,
        descending |-> descending]

RECURSIVE BinarySearch(_, _, _, _, _)
BinarySearch(run, pivot, l, r, lt) ==
    IF l >= r THEN l
    ELSE LET p == l + ((r - l) \div 2)
         IN IF lt[pivot][run[p + 1]]
            THEN BinarySearch(run, pivot, l, p, lt)
            ELSE BinarySearch(run, pivot, p + 1, r, lt)

RECURSIVE binarysort(_, _, _, _)
binarysort(run, start, n, lt) ==
    IF start > n THEN run
    ELSE LET l == BinarySearch(run, start, 0, Len(run), lt)
         IN binarysort(SubSeq(run, 1, l) \o <<start>> \o SubSeq(run, l + 1, Len(run)),
                       start + 1, n, lt)

list_sort(n, lt) ==
    IF n < 2 THEN [i \in 1..n |-> i]
    ELSE LET r == count_run(n, lt)
             first == [i \in 1..r.n |-> i]
         IN binarysort(IF r.descending THEN Reversed(first) ELSE first, r.n + 1, n, lt)

\* comparing None with a Message raises AttributeError and with None
\* TypeError; the sort compares every element at least once when there are
\* two or more
SortRaises(s) == Len(s) >= 2 /\ \E i \in 1..Len(s) : s[i] = Bad

\* sorted(messages) for a list of references into heap h
sorted(h, s) ==
    LET n == Len(s)
        lt == [i \in 1..n |-> [j \in 1..n |-> __lt__(h[s[i]], h[s[j]])]]
        order == list_sort(n, lt)
    IN [i \in 1..n |-> s[order[i]]]

\* descending by sorting ascending and reversing: equal keys change places
sorted_by_len_unstable(ths) ==
    LET n == Len(ths)
        lt == [i \in 1..n |-> [j \in 1..n |-> Len(ths[i].messages) < Len(ths[j].messages)]]
        order == list_sort(n, lt)
    IN Reversed([i \in 1..n |-> ths[order[i]]])

\* sorted(threads, key=len, reverse=True): the list is reversed, sorted by
\* key, and reversed again
sorted_by_len_reverse(ths) ==
    LET n == Len(ths)
        r == Reversed(ths)
        lt == [i \in 1..n |-> [j \in 1..n |-> Len(r[i].messages) < Len(r[j].messages)]]
        order == list_sort(n, lt)
    IN Reversed([i \in 1..n |-> r[order[i]]])

----------------------------------------------------------------------------
(* Thread and Chat *)

Thread__init__(h, people, messages) ==
    [people |-> people, messages |-> sorted(h, messages)]

RECURSIVE Concat(_)
Concat(ths) ==
    IF ths = <<>> THEN <<>> ELSE Head(ths).messages \o Concat(Tail(ths))

\* all_messages that reads the first thread only
all_messages_first(h, ths) == sorted(h, IF ths = <<>> THEN <<>> ELSE Head(ths).messages)

\* Chat.all_messages: the caller checks AllMessagesRaises first
all_messages(h, ths) == sorted(h, Concat(ths))
AllMessagesRaises(ths) == SortRaises(Concat(ths))

RECURSIVE SumLen(_)
SumLen(ths) == IF ths = <<>> THEN 0 ELSE Len(Head(ths).messages) + SumLen(Tail(ths))

\* the loop of _renumber_messages from position i on; None has no _num to
\* set: AttributeError, and the earlier assignments stay
RECURSIVE renumber_loop(_, _, _)
renumber_loop(h, messages, i) ==
    IF i > Len(messages) \/ messages[i] = Bad THEN h
    ELSE renumber_loop([h EXCEPT ![messages[i]]._num = i], messages, i + 1)

\* Thread.sent_between: the list comprehension over self.messages
Thread_sent_between(h, thread, start, end) ==
    SelectSeq(thread.messages, LAMBDA m : sent_between(h[m], start, end))

RECURSIVE ConcatBetween(_, _, _, _)
ConcatBetween(h, ths, start, end) ==
    IF ths = <<>> THEN <<>>
    ELSE Thread_sent_between(h, Head(ths), start, end)
            \o ConcatBetween(h, Tail(ths), start, end)

\* Chat.sent_between: sorted() of the threads' answers
Chat_sent_between(h, ths, start, end) == sorted(h, ConcatBetween(h, ths, start, end))

----------------------------------------------------------------------------
(* Operations.  `last` records the call just made: its name, the thread it   *)
(* was made on, whether it raised, and for a query what it returned.         *)

\* Thread(people, messages) for every parsed thread, then Chat(myname, threads);
\* the argument list is dropped when the constructor returns
Construct ==
    /\ pc = "parsed"
    /\ LET built == [k \in 1..Len(parsed) |->
                        Thread__init__(heap, parsed[k].people, parsed[k].messages)]
           ths == sorted_by_len_reverse(built)
       IN /\ threads' = ths
          /\ total' = Len(all_messages(heap, ths))
    /\ pc' = "ready"
    /\ parsed' = <<>>
    /\ last' = [op |-> "Chat", t |-> 0, raised |-> FALSE]
    /\ UNCHANGED heap

\* Thread._add_messages(new_messages) on threads[t]: extend() changes the list
\* in place before sorted() runs
_add_messages(t, new_messages) ==
    /\ pc = "ready"
    /\ t \in 1..Len(threads)
    /\ LET extended == threads[t].messages \o new_messages
       IN IF SortRaises(extended)
          THEN /\ threads' = [threads EXCEPT ![t].messages = extended]
               /\ last' = [op |-> "_add_messages", t |-> t, raised |-> TRUE]
          ELSE /\ threads' = [threads EXCEPT ![t].messages = sorted(heap, extended)]
               /\ last' = [op |-> "_add_messages", t |-> t, raised |-> FALSE]
    /\ UNCHANGED <<heap, parsed, total, pc>>

\* Thread._renumber_messages() on threads[t]
_renumber_messages(t) ==
    /\ pc = "ready"
    /\ t \in 1..Len(threads)
    /\ heap' = renumber_loop(heap, threads[t].messages, 1)
    /\ last' = [op |-> "_renumber_messages", t |-> t,
                raised |-> \E i \in 1..Len(threads[t].messages) :
                               threads[t].messages[i] = Bad]
    /\ UNCHANGED <<parsed, threads, total, pc>>

\* Chat._recount_messages()
_recount_messages ==
    /\ pc = "ready"
    /\ IF AllMessagesRaises(threads)
       THEN /\ total' = total
            /\ last' = [op |-> "_recount_messages", t |-> 0, raised |-> TRUE]
       ELSE /\ total' = Len(all_messages(heap, threads))
            /\ last' = [op |-> "_recount_messages", t |-> 0, raised |-> FALSE]
    /\ UNCHANGED <<heap, parsed, threads, pc>>

----------------------------------------------------------------------------
(* Inputs *)

RECURSIVE SeqsUpTo(_, _)
SeqsUpTo(S, n) ==
    IF n = 0 THEN {<<>>}
    ELSE LET shorter == SeqsUpTo(S, n - 1)
         IN shorter \cup {Append(s, x) : s \in {q \in shorter : Len(q) = n - 1}, x \in S}

Range(s) == {s[i] : i \in 1..Len(s)}

NoRepeat(s) == \A i, j \in 1..Len(s) : i # j => s[i] # s[j]

Perms(R) == {s \in [1..Cardinality(R) -> R] : NoRepeat(s)}

\* what a parser hands over for n threads and the objects R: every Message
\* object belongs to at most one thread, each thread lists its own in some
\* order, and the threads are named by their place in the list
ParsedThreads(n, R) ==
    {[k \in 1..n |-> [people |-> <<k>>,
                      messages |-> SelectSeq(order, LAMBDA r : owner[r] = k)]] :
        owner \in [R -> 0..n], order \in Perms(R)}

----------------------------------------------------------------------------
(* Spec: one chat whose threads are merged into and renumbered.  Sequence    *)
(* numbers come from both sides of the 9000 gap.                             *)

Times == {0, 1}
Nums == {1, 5000, 9500}

Messages == [date_time : Times, _num : Nums, author : {"A"}, text : {"x"}]

NewMessages == SeqsUpTo(Refs \cup {Bad}, MaxNew)

Init ==
    /\ heap \in [Refs -> Messages]
    /\ parsed \in ParsedThreads(MaxThreads, Refs)
    /\ threads = <<>>
    /\ total = 0
    /\ pc = "parsed"
    /\ last = [op |-> "parse", t |-> 0, raised |-> FALSE]

Next ==
    \/ Construct
    \/ \E t \in 1..MaxThreads, new_messages \in NewMessages :
           /\ pc = "ready"
           /\ Len(threads[t].messages) + Len(new_messages) <= MaxLen
           /\ _add_messages(t, new_messages)
    \/ \E t \in 1..MaxThreads : _renumber_messages(t)

Spec == Init /\ [][Next]_vars

----------------------------------------------------------------------------
(* SpecChat: a chat of several threads that are merged into and recounted.   *)

ChatRefs == 1..ChatMsgs

ChatMessages == [date_time : Times, _num : {1}, author : {"A"}, text : {"x"}]

\* the objects are numbered in the order of their timestamps
InitChat ==
    /\ heap \in {h \in [ChatRefs -> ChatMessages] :
                   \A i, j \in ChatRefs : i < j => h[i].date_time <= h[j].date_time}
    /\ parsed \in ParsedThreads(ChatThreads, ChatRefs)
    /\ threads = <<>>
    /\ total = 0
    /\ pc = "parsed"
    /\ last = [op |-> "parse", t |-> 0, raised |-> FALSE]

NextChat ==
    \/ Construct
    \/ \E t \in 1..ChatThreads, new_messages \in SeqsUpTo(ChatRefs \cup {Bad}, ChatNew) :
           /\ pc = "ready"
           /\ SumLen(threads) + Len(new_messages) <= ChatTotal
           /\ _add_messages(t, new_messages)
    \/ _recount_messages

SpecChat == InitChat /\ [][NextChat]_vars

----------------------------------------------------------------------------
(* SpecConstruct: Chat(myname, threads) on every list of parsed threads.     *)

ConstructRefs == 1..ConstructMsgs

InitConstruct ==
    /\ heap \in [ConstructRefs -> ChatMessages]
    /\ parsed \in ParsedThreads(ConstructThreads, ConstructRefs)
    /\ threads = <<>>
    /\ total = 0
    /\ pc = "parsed"
    /\ last = [op |-> "parse", t |-> 0, raised |-> FALSE]

NextConstruct == Construct

SpecConstruct == InitConstruct /\ [][NextConstruct]_vars

----------------------------------------------------------------------------
(* SpecQuery: sent_between asked of a message, of a thread and of the chat.  *)
(* 31 January 2015 00:00 is minute 43200, 1 February 2015 00:00 is 44640.    *)

QueryRefs == 1..QueryMsgs

QueryTimes == {43199, 43200, 43201, 44640, 44641}

QueryStarts ==
    {Tuple(<<2015, 1, 31>>), Tuple(<<2015, 1, 30, 23, 59>>), Native(43201)}

QueryEnds == {None, Tuple(<<2015, 2, 1>>), Native(43200), Tuple(<<2015, 1, 31, 0, 1>>)}

QueryMessages == [date_time : QueryTimes, _num : {1}, author : {"A"}, text : {"x"}]

Message_sent_between(m, start, end) ==
    /\ pc = "ready"
    /\ last' = [op |-> "Message.sent_between", t |-> 0, raised |-> FALSE,
                m |-> m, start |-> start, end |-> end,
                ret |-> sent_between(heap[m], start, end)]
    /\ UNCHANGED <<heap, parsed, threads, total, pc>>

Thread_sent_between_call(t, start, end) ==
    /\ pc = "ready"
    /\ t \in 1..Len(threads)
    /\ last' = [op |-> "Thread.sent_between", t |-> t, raised |-> FALSE,
                start |-> start, end |-> end,
                ret |-> Thread_sent_between(heap, threads[t], start, end)]
    /\ UNCHANGED <<heap, parsed, threads, total, pc>>

Chat_sent_between_call(start, end) ==
    /\ pc = "ready"
    /\ last' = [op |-> "Chat.sent_between", t |-> 0, raised |-> FALSE,
                start |-> start, end |-> end,
                ret |-> Chat_sent_between(heap, threads, start, end)]
    /\ UNCHANGED <<heap, parsed, threads, total, pc>>

\* the parsed threads: the objects are dealt out to the two threads in turn
QueryParsed ==
    [k \in 1..2 |-> [people |-> <<k>>,
                     messages |-> SelectSeq([i \in 1..QueryMsgs |-> QueryMsgs + 1 - i],
                                            LAMBDA r : r % 2 = k - 1)]]

InitQuery ==
    /\ heap \in [QueryRefs -> QueryMessages]
    /\ parsed = QueryParsed
    /\ threads = <<>>
    /\ total = 0
    /\ pc = "parsed"
    /\ last = [op |-> "parse", t |-> 0, raised |-> FALSE]

NextQuery ==
    \/ Construct
    \/ \E m \in QueryRefs, start \in QueryStarts, end \in QueryEnds :
           Message_sent_between(m, start, end)
    \/ \E t \in 1..2, start \in QueryStarts, end \in QueryEnds :
           Thread_sent_between_call(t, start, end)
    \/ \E start \in QueryStarts, end \in QueryEnds : Chat_sent_between_call(start, end)

SpecQuery == InitQuery /\ [][NextQuery]_vars

----------------------------------------------------------------------------
(* SpecOrder: the comparison operators on every pair and triple of messages  *)
(* a, b, c, with sequence numbers on both sides of the 9000 gap.             *)

OrderNums == {1, 2, 9001, 9002}

OrderMessages == [date_time : Times, _num : OrderNums, author : {"A", "B"}, text : {"x", "y"}]

OrderRefs == {1, 2, 3}

\* a < b, a == b and a > b
Compare(a, b) ==
    /\ last' = [op |-> "compare", t |-> 0, raised |-> FALSE, a |-> a, b |-> b,
                lt |-> __lt__(heap[a], heap[b]),
                eq |-> __eq__(heap[a], heap[b]),
                gt |-> __gt__(heap[a], heap[b])]
    /\ UNCHANGED <<heap, parsed, threads, total, pc>>

\* a < b, b < c and a < c
CompareChain(a, b, c) ==
    /\ last' = [op |-> "chain", t |-> 0, raised |-> FALSE, a |-> a, b |-> b, c |-> c,
                ab |-> __lt__(heap[a], heap[b]),
                bc |-> __lt__(heap[b], heap[c]),
                ac |-> __lt__(heap[a], heap[c])]
    /\ UNCHANGED <<heap, parsed, threads, total, pc>>

InitOrder ==
    /\ heap \in [OrderRefs -> OrderMessages]
    /\ parsed = <<>>
    /\ threads = <<>>
    /\ total = 0
    /\ pc = "ready"
    /\ last = [op |-> "parse", t |-> 0, raised |-> FALSE]

NextOrder ==
    \/ \E a, b \in OrderRefs : Compare(a, b)
    \/ CompareChain(1, 2, 3)

SpecOrder == InitOrder /\ [][NextOrder]_vars

----------------------------------------------------------------------------
(* Properties *)

ExactlyOne(x, y, z) == (x /\ ~y /\ ~z) \/ (~x /\ y /\ ~z) \/ (~x /\ ~y /\ z)

Gap(a, b) == IF a._num >= b._num THEN a._num - b._num ELSE b._num - a._num

\* same timestamp and sequence number, another author or text
Tied(a, b) ==
    /\ a.date_time = b.date_time /\ a._num = b._num
    /\ (a.author # b.author \/ a.text # b.text)

\* C1 as claimed: for every pair of messages a and b exactly one of a < b,
\* a == b and a > b holds.
C1_Trichotomy ==
    last.op = "compare" => ExactlyOne(last.lt, last.eq, last.gt)

\* C1 amended: exactly one of a < b, a == b and a > b holds unless a and b have
\* the same timestamp and sequence number but another author or text; then
\* none of the three holds.
C1_TrichotomyUnlessTied ==
    last.op = "compare" =>
        IF Tied(heap[last.a], heap[last.b])
        THEN ~last.lt /\ ~last.eq /\ ~last.gt
        ELSE ExactlyOne(last.lt, last.eq, last.gt)

\* two messages of one timestamp more than 9000 numbers apart were compared
C1_Witness ==
    /\ last.op = "compare"
    /\ heap[last.a].date_time = heap[last.b].date_time
    /\ Gap(heap[last.a], heap[last.b]) > GapThreshold
    /\ ExactlyOne(last.lt, last.eq, last.gt)

\* C7: the order is transitive: a < b and b < c give a < c, also when the
\* sequence numbers straddle the 9000 gap.
C7_Transitive ==
    last.op = "chain" => (last.ab /\ last.bc => last.ac)

\* C8: a < b is the comparison of the timestamps when they differ, of the
\* sequence numbers when the timestamps agree and the numbers are at most 9000
\* apart, and the inverse of that (the larger number sorts earlier) when they
\* are more than 9000 apart.
C8_WrapAround ==
    last.op = "compare" =>
        LET a == heap[last.a]
            b == heap[last.b]
        IN last.lt = IF a.date_time # b.date_time THEN a.date_time < b.date_time
                     ELSE IF Gap(a, b) > GapThreshold THEN a._num > b._num
                     ELSE a._num < b._num

IsSorted(h, s) == \A i, j \in 1..Len(s) : i < j => ~__lt__(h[s[j]], h[s[i]])

\* C2: after construction every thread's messages are sorted under the Message
\* order, and so are a thread's messages after a merge into it: no later
\* message is less than an earlier one.
C2_Sorted ==
    /\ last.op = "Chat" => \A t \in 1..Len(threads) : IsSorted(heap, threads[t].messages)
    /\ (last.op = "_add_messages" /\ ~last.raised) =>
           IsSorted(heap, threads[last.t].messages)

\* C3: after a renumber the message at position i (from 0) has sequence number
\* i + 1, whatever was merged before.
C3_Renumbered ==
    (last.op = "_renumber_messages" /\ ~last.raised) =>
        \A i \in 1..Len(threads[last.t].messages) :
            heap[threads[last.t].messages[i]]._num = i

\* C5: a merge that fails leaves the thread's messages as they were before
\* the call.
C5_AllOrNothing ==
    [][(last'.op = "_add_messages" /\ last'.raised) => threads' = threads]_vars

\* C4 as claimed: the cached count equals the sum of the threads' message
\* counts; the program keeps no mark that would say the count is stale.
C4_CachedCount ==
    pc = "ready" => total = SumLen(threads)

\* C4 amended: the cached count equals the sum of the threads' message counts
\* right after construction and right after every recount that returns.
C4_CachedCountAfterCount ==
    (pc = "ready" /\ (last.op = "Chat" \/ (last.op = "_recount_messages" /\ ~last.raised)))
        => total = SumLen(threads)

\* a recount after merges: some thread holds an object twice, which only a
\* merge brings about, and the count covers it
C4_Witness ==
    /\ last.op = "_recount_messages" /\ ~last.raised
    /\ \E t \in 1..Len(threads) : ~NoRepeat(threads[t].messages)
    /\ total = SumLen(threads)
    /\ total = ChatTotal

\* C6: Chat.threads is ordered by descending message count in every state
\* after construction.
C6_DescendingCounts ==
    pc = "ready" =>
        \A i, j \in 1..Len(threads) :
            i < j => Len(threads[i].messages) >= Len(threads[j].messages)

\* out is inp ordered by descending message count, threads of equal count in
\* their order in inp (a thread's people is its place in inp)
StableDescending(inp, out) ==
    /\ Len(out) = Len(inp)
    /\ {out[i].people[1] : i \in 1..Len(out)} = 1..Len(inp)
    /\ \A i \in 1..Len(out) :
           /\ Len(out[i].messages) = Len(inp[out[i].people[1]].messages)
           /\ Range(out[i].messages) = Range(inp[out[i].people[1]].messages)
    /\ \A i, j \in 1..Len(out) :
           i < j => \/ Len(out[i].messages) > Len(out[j].messages)
                    \/ /\ Len(out[i].messages) = Len(out[j].messages)
                       /\ out[i].people[1] < out[j].people[1]

\* C10: Chat construction orders the threads by descending message count and
\* keeps threads of equal count in their input order.
C10_StableDescending ==
    [][pc = "parsed" => StableDescending(parsed, threads')]_vars

\* a chat built from threads the constructor had to reorder, two of them of
\* one size
C10_Witness ==
    /\ last.op = "Chat"
    /\ threads[1].people # <<1>>
    /\ \E i, j \in 1..Len(threads) :
           /\ i < j
           /\ Len(threads[i].messages) = Len(threads[j].messages)
           /\ Len(threads[i].messages) > 0

Count(s, x) == Cardinality({i \in 1..Len(s) : s[i] = x})

\* start <= t <= end on the minutes, an omitted end being start + 24 hours
Between(t, start, end) ==
    /\ _date_parse(start) <= t
    /\ IF end = None THEN t - _date_parse(start) <= MinutesPerDay
       ELSE t <= _date_parse(end)

====
